---- MODULE Spec2Model ----
(***************************************************************************)
(* Model of scnapkg.py: one run of main() on one .apkg file.  Texts are    *)
(* sequences of one-character strings, so that len(), slicing and the      *)
(* regular-expression searches work on characters as in the program.      *)
(***************************************************************************)
EXTENDS Integers, Sequences, FiniteSets, TLC

VARIABLES
  pc,             \* position of the run in main / scan_sqlite / the scanner
  apkg,           \* the archive file given on the command line
  fs,             \* extracted_apkg: the directory and its two collection files
  preview_length, \* args.preview_length
  scan_all,       \* args.all_tables
  out,            \* everything printed so far, with the input() calls
  answer,         \* what the last input() call read
  tables,         \* scan_sqlite: the fetched table names
  ti,             \* scan_sqlite: index of the table being scanned
  rows,           \* scan_notes / scan_table: the fetched rows
  ri,             \* index of the row being scanned
  ci,             \* scan_table: index of the column being scanned
  column,         \* scan_for_patterns_in_column: its argument
  k,              \* scan_for_patterns_in_column: index of the signature
  ret,            \* where the scanner returns to
  colStart,       \* length of out when the scanner was entered
  calls,          \* history: the values the scanner was called on
  examined,       \* history: the triggers scan_triggers looked at
  scanInvoked,    \* history: scan_sqlite was called
  closed          \* history: conn.close() was reached

vars == <<pc, apkg, fs, preview_length, scan_all, out, answer, tables, ti, rows,
          ri, ci, column, k, ret, colStart, calls, examined, scanInvoked, closed>>

-----------------------------------------------------------------------------
(* Bounds of the model *)

\* most fragments a generated text is made of
MaxFrags == 2
\* largest small preview length tried (besides the default)
MaxPreview == 3
\* preview lengths down to -NegPreview are tried
NegPreview == 2
\* rows a table may have beyond the row limit of the queries
MaxExtra == 1
\* a preview length between the lengths of the short and the long sample text
MidPreview == 8

(* Program constants *)

DefaultPreview == 300
NotesLimit == 50
TableLimit == 50

-----------------------------------------------------------------------------
(* Characters and strings *)

\* the grave accent, which a TLA+ string cannot hold
Backtick == "BACKTICK"

Min(a, b) == IF a < b THEN a ELSE b

Max(a, b) == IF a > b THEN a ELSE b

UpperCase == <<"A", "B", "C", "D", "E", "F", "G", "H", "I", "J", "K", "L", "M", "N", "O", "P", "Q", "R", "S", "T", "U", "V", "W", "X", "Y", "Z">>

LowerCase == <<"a", "b", "c", "d", "e", "f", "g", "h", "i", "j", "k", "l", "m", "n", "o", "p", "q", "r", "s", "t", "u", "v", "w", "x", "y", "z">>

\* str.lower() on one character
LowerChar(c) ==
  IF \E i \in 1..Len(UpperCase) : UpperCase[i] = c
  THEN LowerCase[CHOOSE i \in 1..Len(UpperCase) : UpperCase[i] = c]
  ELSE c

\* str.lower()
Lower(s) == [i \in 1..Len(s) |-> LowerChar(s[i])]

Whitespace == {" ", "\t", "\n", "\r"}

\* str.strip()
Strip(s) ==
  IF \A i \in 1..Len(s) : s[i] \in Whitespace
  THEN <<>>
  ELSE LET first == CHOOSE i \in 1..Len(s) :
                      s[i] \notin Whitespace /\ \A j \in 1..(i-1) : s[j] \in Whitespace
           last  == CHOOSE i \in 1..Len(s) :
                      s[i] \notin Whitespace /\ \A j \in (i+1)..Len(s) : s[j] \in Whitespace
       IN  SubSeq(s, first, last)

\* the slice s[:n] of Python, for any integer n
SlicePrefix(s, n) ==
  IF n >= 0 THEN SubSeq(s, 1, Min(n, Len(s)))
            ELSE SubSeq(s, 1, Max(Len(s) + n, 0))

\* re.search of a literal (lower-case) pattern with re.IGNORECASE
SearchLiteral(lit, s) ==
  \E i \in 1..(Len(s) - Len(lit) + 1) :
     \A j \in 1..Len(lit) : LowerChar(s[i + j - 1]) = lit[j]

\* re.search of the alternative backtick, [^backtick]+, backtick
SearchBackticks(s) ==
  \E i \in 1..Len(s) : \E j \in (i+2)..Len(s) :
     /\ s[i] = Backtick
     /\ s[j] = Backtick
     /\ \A m \in (i+1)..(j-1) : s[m] # Backtick

\* re.search of the alternative \$\(.*\): the dot matches every character but the newline
SearchDollarParen(s) ==
  \E i \in 1..(Len(s) - 1) : \E j \in (i+2)..Len(s) :
     /\ s[i] = "$"
     /\ s[i+1] = "("
     /\ s[j] = ")"
     /\ \A m \in (i+2)..(j-1) : s[m] # "\n"

-----------------------------------------------------------------------------
(* The signatures of scan_for_patterns_in_column *)

patterns == <<
  [lits |-> {<<"<", "s", "c", "r", "i", "p", "t", ">">>, <<"o", "n", "l", "o", "a", "d", "=">>, <<"e", "v", "a", "l", "(">>, <<"e", "x", "e", "c", "(">>}, shell |-> FALSE,
   warning |-> "Potentially malicious JavaScript"],
  [lits |-> {<<"o", "s", ".", "s", "y", "s", "t", "e", "m">>, <<"s", "u", "b", "p", "r", "o", "c", "e", "s", "s", ".", "r", "u", "n">>, <<"e", "v", "a", "l", "(">>, <<"e", "x", "e", "c", "(">>}, shell |-> FALSE,
   warning |-> "Suspicious Python execution"],
  [lits |-> {<<"<", "i", "f", "r", "a", "m", "e">>, <<"<", "o", "b", "j", "e", "c", "t">>, <<"<", "e", "m", "b", "e", "d">>, <<"o", "n", "c", "l", "i", "c", "k", "=">>}, shell |-> FALSE,
   warning |-> "Suspicious iframe/object/embed"],
  [lits |-> {}, shell |-> TRUE,
   warning |-> "Potential shell command execution"] >>

\* re.search(pattern, column, re.IGNORECASE) for the i-th signature
Search(i, s) ==
  \/ \E lit \in patterns[i].lits : SearchLiteral(lit, s)
  \/ patterns[i].shell /\ (SearchBackticks(s) \/ SearchDollarParen(s))

\* the comparison with >= in place of >
TooLongOrEqual(s, n) == Len(s) >= n

\* len(column) > preview_length
TooLong(s, n) == Len(s) > n

TriggerKeywords == {<<"d", "e", "l", "e", "t", "e">>, <<"d", "r", "o", "p">>, <<"a", "l", "t", "e", "r">>, <<"a", "t", "t", "a", "c", "h">>, <<"p", "r", "a", "g", "m", "a">>}

\* the search for the keywords without re.IGNORECASE
SuspiciousTriggerCaseSensitive(sql) ==
  \E kw \in TriggerKeywords :
    \E i \in 1..(Len(sql) - Len(kw) + 1) : SubSeq(sql, i, i + Len(kw) - 1) = kw

\* re.search of delete|drop|alter|attach|pragma in sql with re.IGNORECASE
SuspiciousTrigger(sql) == \E kw \in TriggerKeywords : SearchLiteral(kw, sql)

\* user_input == y, after input(...).strip().lower()
Expand(r) == Lower(Strip(r)) = <<"y">>

-----------------------------------------------------------------------------
(* Values, printed lines, files *)

\* a column value: a string, NULL or a number
Str(s) == [type |-> "str", s |-> s]

Null == [type |-> "null", s |-> <<>>]

Number == [type |-> "int", s |-> <<>>]

\* one printed line, or one call of input()
Ev(kind, label, text) == [kind |-> kind, label |-> label, text |-> text]

NoStore == [triggers |-> <<>>, tables |-> <<>>]

\* the content of a file: kind is absent, sqlite, empty, garbage or zstd
File(kind, store) == [kind |-> kind, store |-> store]

Absent == File("absent", NoStore)

Garbage == File("garbage", NoStore)

Empty == File("empty", NoStore)

\* os.path.exists
Exists(f) == f.kind # "absent"

\* the end-of-file condition of input()
EOF == <<"EOF">>

-----------------------------------------------------------------------------
(* The inputs of the model: texts, stores, archives, working directories *)

Fragments ==
  { <<"<", "s", "c", "r", "i", "p", "t", ">">>, <<"E", "V", "A", "L", "(">>, <<"o", "s", ".", "s", "y", "s", "t", "e", "m">>, <<"<", "I", "f", "r", "a", "m", "e">>, <<Backtick>>, <<"$", "(">>, <<")">>,
    <<"\n">>, <<"a">> }

RECURSIVE Flatten(_)
Flatten(ss) == IF ss = <<>> THEN <<>> ELSE Head(ss) \o Flatten(Tail(ss))

Texts == { Flatten(ss) : ss \in UNION { [1..n -> Fragments] : n \in 0..MaxFrags } }

PreviewLengths == ((0 - NegPreview)..MaxPreview) \cup {DefaultPreview}

Responses == { <<"y">>, <<" ", "Y", " ">>, <<"n">>, <<>>, <<"y", "e", "s">> }

Trigger(name, sql) == [name |-> name, sql |-> sql]

Table(name, bare, trows) == [name |-> name, bare |-> bare, rows |-> trows]

Store(triggers, tbls) == [triggers |-> triggers, tables |-> tbls]

\* the column of the notes table that holds flds; the column before it holds the id
FldsColumn == 2

TrgWipe == Trigger("trg_wipe", <<"C", "R", "E", "A", "T", "E", " ", "T", "R", "I", "G", "G", "E", "R", " ", "t", "r", "g", "_", "w", "i", "p", "e", " ", "A", "F", "T", "E", "R", " ", "I", "N", "S", "E", "R", "T", " ", "O", "N", " ", "n", "o", "t", "e", "s", " ", "B", "E", "G", "I", "N", " ", "D", "R", "O", "P", " ", "T", "A", "B", "L", "E", " ", "n", "o", "t", "e", "s", ";", " ", "E", "N", "D">>)

TrgLog == Trigger("trg_log", <<"C", "R", "E", "A", "T", "E", " ", "T", "R", "I", "G", "G", "E", "R", " ", "t", "r", "g", "_", "l", "o", "g", " ", "A", "F", "T", "E", "R", " ", "I", "N", "S", "E", "R", "T", " ", "O", "N", " ", "n", "o", "t", "e", "s", " ", "B", "E", "G", "I", "N", " ", "S", "E", "L", "E", "C", "T", " ", "1", ";", " ", "E", "N", "D">>)

TrgPragma == Trigger("trg_cfg", <<"C", "R", "E", "A", "T", "E", " ", "T", "R", "I", "G", "G", "E", "R", " ", "t", "r", "g", "_", "c", "f", "g", " ", "A", "F", "T", "E", "R", " ", "I", "N", "S", "E", "R", "T", " ", "O", "N", " ", "n", "o", "t", "e", "s", " ", "B", "E", "G", "I", "N", " ", "S", "E", "L", "E", "C", "T", " ", "'", "P", "r", "a", "g", "m", "a", "'", ";", " ", "E", "N", "D">>)

\* the keyword stands in the event clause of the statement, not between BEGIN and END
TrgOnDelete == Trigger("trg_sync", <<"C", "R", "E", "A", "T", "E", " ", "T", "R", "I", "G", "G", "E", "R", " ", "t", "r", "g", "_", "s", "y", "n", "c", " ", "A", "F", "T", "E", "R", " ", "D", "E", "L", "E", "T", "E", " ", "O", "N", " ", "n", "o", "t", "e", "s", " ", "B", "E", "G", "I", "N", " ", "S", "E", "L", "E", "C", "T", " ", "1", ";", " ", "E", "N", "D">>)

TriggerLists == { <<>>, <<TrgLog, TrgWipe>>, <<TrgPragma, TrgLog>>, <<TrgOnDelete, TrgLog>> }

ShortText == Str(<<"<", "e", "m", "b", "e", "d">>)

LongText == Str(<<"<", "s", "c", "r", "i", "p", "t", ">", "E", "V", "A", "L", "(">>)

\* n rows <<id, value>>: value is hotval in row hot and fill elsewhere
MkRows(n, fill, hot, hotval) ==
  [i \in 1..n |-> <<Number, IF i = hot THEN hotval ELSE fill>>]

NotesSmall == Table("notes", TRUE, <<<<Number, Str(<<"<", "s", "c", "r", "i", "p", "t", ">", "a", "l", "e", "r", "t", "(", "1", ")", "<", "/", "s", "c", "r", "i", "p", "t", ">">>)>>>>)

Cards == Table("cards", TRUE, <<<<Str(<<Backtick, "r", "m", " ", "-", "r", "f", " ", "/", Backtick>>), Number, Null>>, <<Str(<<"a">>), Number, LongText>>>>)

Quoted == Table("my table", FALSE, <<<<Number, Str(<<"<", "i", "f", "r", "a", "m", "e">>)>>>>)

NotesTables ==
  { Table("notes", TRUE, MkRows(n, ShortText, hot, hotval)) :
      n \in {0, 2, NotesLimit, NotesLimit + MaxExtra},
      hot \in {1, NotesLimit, NotesLimit + MaxExtra},
      hotval \in {LongText, Null} }

Stores ==
       { Store(trg, <<NotesSmall>>) : trg \in TriggerLists }
  \cup { Store(<<TrgWipe>>, <<nt>>) : nt \in NotesTables }
  \cup { Store(<<>>, tbls) :
           tbls \in { <<>>, <<Cards>>, <<NotesSmall, Cards>>, <<Quoted, NotesSmall>>,
                      <<Cards, Quoted, NotesSmall>> } }

TextStores == { Store(<<>>, <<Table("notes", TRUE, <<<<Number, Str(s)>>>>)>>) : s \in Texts }

SampleStore == Store(<<TrgWipe>>, <<NotesSmall>>)

Archive(kind, anki2, anki21b) == [kind |-> kind, anki2 |-> anki2, anki21b |-> anki21b]

Dir(dir, anki2, anki21b) == [dir |-> dir, anki2 |-> anki2, anki21b |-> anki21b]

PlainFiles == { Absent, Garbage, File("sqlite", SampleStore) }

PackedFiles == { Absent, Garbage, File("zstd", SampleStore) }

Archives ==
       { Archive("missing", Absent, Absent), Archive("notzip", Absent, Absent) }
  \cup { Archive("zip", a, b) : a \in PlainFiles, b \in PackedFiles }

Dirs ==
       { Dir("absent", Absent, Absent), Dir("file", Absent, Absent) }
  \cup { Dir("dir", a, b) : a \in PlainFiles, b \in PackedFiles }

Scenario(a, d, p, all) == [apkg |-> a, fs |-> d, p |-> p, all |-> all]

Scenarios ==
       { Scenario(a, d, DefaultPreview, all) :
           a \in Archives, d \in Dirs, all \in BOOLEAN }
  \cup { Scenario(Archive("zip", File("sqlite", s), Absent), Dir("absent", Absent, Absent), p, all) :
           s \in Stores, p \in {MidPreview, DefaultPreview}, all \in BOOLEAN }
  \cup { Scenario(Archive("zip", File("sqlite", s), Absent), Dir("absent", Absent, Absent), p, FALSE) :
           s \in TextStores, p \in PreviewLengths }

-----------------------------------------------------------------------------
(* The state after the command line is parsed, before main runs *)

Init ==
  /\ \E sc \in Scenarios :
       /\ apkg = sc.apkg
       /\ fs = sc.fs
       /\ preview_length = sc.p
       /\ scan_all = sc.all
  /\ pc = "main"
  /\ out = <<>>
  /\ answer = <<>>
  /\ tables = <<>>
  /\ ti = 0
  /\ rows = <<>>
  /\ ri = 0
  /\ ci = 0
  /\ column = Null
  /\ k = 0
  /\ ret = "none"
  /\ colStart = 0
  /\ calls = {}
  /\ examined = <<>>
  /\ scanInvoked = FALSE
  /\ closed = FALSE

\* out after one more line of the given kind
Emit(kind) == out \o <<Ev(kind, "", <<>>)>>

-----------------------------------------------------------------------------
(* extract_apkg *)

\* os.makedirs(extract_folder, exist_ok=True): the outcomes for a path that is
\* absent, a directory or a regular file
MakedirsOutcomes(dir) ==
  CASE dir = "dir"    -> {"ok"}
    [] dir = "absent" -> {"ok", "oserror"}
    [] dir = "file"   -> {"oserror"}

\* zip_ref.extractall: a member replaces the file of its name, other files stay
ExtractAll(a, d) ==
  Dir("dir", IF Exists(a.anki2) THEN a.anki2 ELSE d.anki2,
             IF Exists(a.anki21b) THEN a.anki21b ELSE d.anki21b)

Extract ==
  /\ pc = "main"
  /\ \E mk \in MakedirsOutcomes(fs.dir) :
       IF mk = "oserror"
       THEN /\ pc' = "uncaught"
            /\ UNCHANGED <<fs, out>>
       ELSE /\ pc' = "checkCompressed"
            /\ CASE apkg.kind = "zip" ->
                      /\ fs' = ExtractAll(apkg, fs)
                      /\ out' = Emit("extracted")
                 [] apkg.kind = "notzip" ->
                      /\ fs' = [fs EXCEPT !.dir = "dir"]
                      /\ out' = Emit("badZip")
                 [] apkg.kind = "missing" ->
                      /\ fs' = [fs EXCEPT !.dir = "dir"]
                      /\ out' = Emit("extractError")
  /\ UNCHANGED <<apkg, preview_length, scan_all, answer, tables, ti, rows, ri, ci,
                 column, k, ret, colStart, calls, examined, scanInvoked, closed>>

-----------------------------------------------------------------------------
(* decompress_anki21b, and the two existence checks of main *)

\* the ways decompress_anki21b can go: the output is opened for writing (and so
\* created or emptied) before the input is read and decoded
DecompressOutcomes(f) ==
  IF f.kind = "zstd" THEN {"ok", "openFails"} ELSE {"readFails", "openFails"}

Decompress ==
  /\ pc = "checkCompressed"
  /\ Exists(fs.anki21b)
  /\ \E oc \in DecompressOutcomes(fs.anki21b) :
       CASE oc = "ok" ->
              /\ fs' = [fs EXCEPT !.anki2 = File("sqlite", fs.anki21b.store)]
              /\ out' = Emit("decompressed")
         [] oc = "openFails" ->
              /\ fs' = fs
              /\ out' = Emit("decompressError")
         [] oc = "readFails" ->
              /\ fs' = [fs EXCEPT !.anki2 = Empty]
              /\ out' = Emit("decompressError")
  /\ pc' = "checkDb"
  /\ UNCHANGED <<apkg, preview_length, scan_all, answer, tables, ti, rows, ri, ci,
                 column, k, ret, colStart, calls, examined, scanInvoked, closed>>

SkipDecompress ==
  /\ pc = "checkCompressed"
  /\ ~Exists(fs.anki21b)
  /\ pc' = "checkDb"
  /\ UNCHANGED <<apkg, fs, preview_length, scan_all, out, answer, tables, ti, rows,
                 ri, ci, column, k, ret, colStart, calls, examined, scanInvoked, closed>>

\* main calls scan_sqlite, which connects (sqlite3 reads nothing yet) and branches
OpenStore ==
  /\ pc = "checkDb"
  /\ Exists(fs.anki2)
  /\ scanInvoked' = TRUE
  /\ pc' = IF scan_all THEN "list_tables" ELSE "scan_triggers"
  /\ UNCHANGED <<apkg, fs, preview_length, scan_all, out, answer, tables, ti, rows,
                 ri, ci, column, k, ret, colStart, calls, examined, closed>>

NoDatabase ==
  /\ pc = "checkDb"
  /\ ~Exists(fs.anki2)
  /\ out' = Emit("noDatabase")
  /\ pc' = "done"
  /\ UNCHANGED <<apkg, fs, preview_length, scan_all, answer, tables, ti, rows,
                 ri, ci, column, k, ret, colStart, calls, examined, scanInvoked, closed>>

-----------------------------------------------------------------------------
(* scan_sqlite in targeted mode: scan_triggers, then scan_notes *)

\* sqlite3 can read the file: an empty file is a database without tables
Readable(f) == f.kind \in {"sqlite", "empty"}

\* the printed lines of scan_triggers for the fetched triggers
TriggerLines(trgs) ==
  LET flagged == SelectSeq(trgs, LAMBDA t : SuspiciousTrigger(t.sql))
  IN  [i \in 1..Len(flagged) |-> Ev("trigger", flagged[i].name, flagged[i].sql)]

ScanTriggers ==
  /\ pc = "scan_triggers"
  /\ IF Readable(fs.anki2)
     THEN /\ examined' = fs.anki2.store.triggers
          /\ out' = out \o TriggerLines(fs.anki2.store.triggers)
          /\ pc' = "scan_notes"
     ELSE /\ out' = Emit("databaseError")
          /\ pc' = "done"
          /\ UNCHANGED examined
  /\ UNCHANGED <<apkg, fs, preview_length, scan_all, answer, tables, ti, rows, ri, ci,
                 column, k, ret, colStart, calls, scanInvoked, closed>>

HasTable(store, name) == \E i \in 1..Len(store.tables) : store.tables[i].name = name

TableNamed(store, name) ==
  store.tables[CHOOSE i \in 1..Len(store.tables) : store.tables[i].name = name]

\* SELECT flds FROM notes LIMIT 50, fetched
QueryNotes ==
  /\ pc = "scan_notes"
  /\ IF HasTable(fs.anki2.store, "notes")
     THEN LET all == TableNamed(fs.anki2.store, "notes").rows
          IN  /\ rows' = [i \in 1..Min(Len(all), NotesLimit) |-> <<all[i][FldsColumn]>>]
              /\ ri' = 1
              /\ pc' = "note_row"
              /\ out' = out
     ELSE /\ out' = Emit("databaseError")
          /\ pc' = "done"
          /\ UNCHANGED <<rows, ri>>
  /\ UNCHANGED <<apkg, fs, preview_length, scan_all, answer, tables, ti, ci,
                 column, k, ret, colStart, calls, examined, scanInvoked, closed>>

\* the loop of scan_notes takes the next row and calls the scanner on note[0]
NextNote ==
  /\ pc = "note_row"
  /\ ri <= Len(rows)
  /\ column' = rows[ri][1]
  /\ k' = 1
  /\ colStart' = Len(out)
  /\ calls' = calls \cup {[t |-> "notes", r |-> ri, c |-> FldsColumn]}
  /\ ri' = ri + 1
  /\ ret' = "note_row"
  /\ pc' = "sig"
  /\ UNCHANGED <<apkg, fs, preview_length, scan_all, out, answer, tables, ti, rows, ci,
                 examined, scanInvoked, closed>>

\* the loop of scan_notes ends; scan_sqlite closes the connection and returns
NotesDone ==
  /\ pc = "note_row"
  /\ ri > Len(rows)
  /\ closed' = TRUE
  /\ pc' = "done"
  /\ UNCHANGED <<apkg, fs, preview_length, scan_all, out, answer, tables, ti, rows, ri,
                 ci, column, k, ret, colStart, calls, examined, scanInvoked>>

-----------------------------------------------------------------------------
(* scan_for_patterns_in_column: one step per signature of the loop *)

\* the lines printed for a matching signature, and the call of input() if the
\* text is longer than the preview
FindingLines(i, s, n) ==
  IF TooLong(s, n)
  THEN <<Ev("preview", patterns[i].warning, SlicePrefix(s, n)), Ev("prompt", "", <<>>)>>
  ELSE <<Ev("whole", patterns[i].warning, s)>>

\* re.search raises TypeError on a value that is not a string; the exception
\* leaves the scanner and is caught by scan_sqlite
CheckSignature ==
  /\ pc = "sig"
  /\ k <= Len(patterns)
  /\ IF column.type # "str"
     THEN /\ out' = Emit("unexpectedError")
          /\ pc' = "done"
          /\ k' = k
     ELSE IF Search(k, column.s)
          THEN /\ out' = out \o FindingLines(k, column.s, preview_length)
               /\ IF TooLong(column.s, preview_length)
                  THEN pc' = "prompt" /\ k' = k
                  ELSE pc' = "sig" /\ k' = k + 1
          ELSE /\ out' = out
               /\ pc' = "sig"
               /\ k' = k + 1
  /\ UNCHANGED <<apkg, fs, preview_length, scan_all, answer, tables, ti, rows, ri, ci,
                 column, ret, colStart, calls, examined, scanInvoked, closed>>

\* input() returns the line r the operator typed
Answer(r) ==
  /\ pc = "prompt"
  /\ answer' = r
  /\ out' = IF Expand(r) THEN out \o <<Ev("full", "", column.s)>> ELSE out
  /\ k' = k + 1
  /\ pc' = "sig"
  /\ UNCHANGED <<apkg, fs, preview_length, scan_all, tables, ti, rows, ri, ci,
                 column, ret, colStart, calls, examined, scanInvoked, closed>>

\* input() finds the standard input at its end and raises EOFError, which
\* leaves the scanner and is caught by scan_sqlite
AnswerEOF ==
  /\ pc = "prompt"
  /\ answer' = EOF
  /\ out' = Emit("unexpectedError")
  /\ pc' = "done"
  /\ UNCHANGED <<apkg, fs, preview_length, scan_all, tables, ti, rows, ri, ci,
                 column, k, ret, colStart, calls, examined, scanInvoked, closed>>

\* the loop over the signatures is over: back to the caller
ScannerReturn ==
  /\ pc = "sig"
  /\ k > Len(patterns)
  /\ pc' = ret
  /\ UNCHANGED <<apkg, fs, preview_length, scan_all, out, answer, tables, ti, rows, ri,
                 ci, column, k, ret, colStart, calls, examined, scanInvoked, closed>>

-----------------------------------------------------------------------------
(* scan_sqlite in exhaustive mode: scan_table on every fetched table *)

\* SELECT name FROM sqlite_master WHERE type = table, fetched
ListTables ==
  /\ pc = "list_tables"
  /\ IF Readable(fs.anki2)
     THEN /\ tables' = [i \in 1..Len(fs.anki2.store.tables) |-> fs.anki2.store.tables[i].name]
          /\ ti' = 1
          /\ pc' = "next_table"
          /\ out' = out
     ELSE /\ out' = Emit("databaseError")
          /\ pc' = "done"
          /\ UNCHANGED <<tables, ti>>
  /\ UNCHANGED <<apkg, fs, preview_length, scan_all, answer, rows, ri, ci,
                 column, k, ret, colStart, calls, examined, scanInvoked, closed>>

\* scan_table up to fetchall: the name is pasted into the statement as it is,
\* so a name that is not a bare identifier makes the statement fail
ScanTable ==
  /\ pc = "next_table"
  /\ ti <= Len(tables)
  /\ LET t == TableNamed(fs.anki2.store, tables[ti])
     IN  IF t.bare
         THEN /\ out' = out \o <<Ev("scanningTable", t.name, <<>>)>>
              /\ rows' = SubSeq(t.rows, 1, Min(Len(t.rows), TableLimit))
              /\ ri' = 1
              /\ ci' = 1
              /\ pc' = "table_row"
         ELSE /\ out' = out \o <<Ev("scanningTable", t.name, <<>>), Ev("databaseError", "", <<>>)>>
              /\ pc' = "done"
              /\ UNCHANGED <<rows, ri, ci>>
  /\ UNCHANGED <<apkg, fs, preview_length, scan_all, answer, tables, ti,
                 column, k, ret, colStart, calls, examined, scanInvoked, closed>>

\* the inner loop of scan_table takes the next column value of the row and
\* calls the scanner if isinstance(column, str)
NextColumn ==
  /\ pc = "table_row"
  /\ ri <= Len(rows)
  /\ ci <= Len(rows[ri])
  /\ ci' = ci + 1
  /\ IF rows[ri][ci].type = "str"
     THEN /\ column' = rows[ri][ci]
          /\ k' = 1
          /\ colStart' = Len(out)
          /\ calls' = calls \cup {[t |-> tables[ti], r |-> ri, c |-> ci]}
          /\ ret' = "table_row"
          /\ pc' = "sig"
     ELSE /\ pc' = "table_row"
          /\ UNCHANGED <<column, k, colStart, calls, ret>>
  /\ UNCHANGED <<apkg, fs, preview_length, scan_all, out, answer, tables, ti, rows, ri,
                 examined, scanInvoked, closed>>

\* the row has no more columns: the outer loop of scan_table takes the next row
NextRow ==
  /\ pc = "table_row"
  /\ ri <= Len(rows)
  /\ ci > Len(rows[ri])
  /\ ri' = ri + 1
  /\ ci' = 1
  /\ UNCHANGED <<pc, apkg, fs, preview_length, scan_all, out, answer, tables, ti, rows,
                 column, k, ret, colStart, calls, examined, scanInvoked, closed>>

\* scan_table returns: the loop of scan_sqlite goes on to the next table
TableDone ==
  /\ pc = "table_row"
  /\ ri > Len(rows)
  /\ ti' = ti + 1
  /\ pc' = "next_table"
  /\ UNCHANGED <<apkg, fs, preview_length, scan_all, out, answer, tables, rows, ri, ci,
                 column, k, ret, colStart, calls, examined, scanInvoked, closed>>

\* no table is left; scan_sqlite closes the connection and returns
TablesDone ==
  /\ pc = "next_table"
  /\ ti > Len(tables)
  /\ closed' = TRUE
  /\ pc' = "done"
  /\ UNCHANGED <<apkg, fs, preview_length, scan_all, out, answer, tables, ti, rows, ri,
                 ci, column, k, ret, colStart, calls, examined, scanInvoked>>

-----------------------------------------------------------------------------

Next ==
  \/ Extract
  \/ Decompress
  \/ SkipDecompress
  \/ OpenStore
  \/ NoDatabase
  \/ ScanTriggers
  \/ QueryNotes
  \/ NextNote
  \/ NotesDone
  \/ CheckSignature
  \/ \E r \in Responses : Answer(r)
  \/ AnswerEOF
  \/ ScannerReturn
  \/ ListTables
  \/ ScanTable
  \/ NextColumn
  \/ NextRow
  \/ TableDone
  \/ TablesDone

Spec == Init /\ [][Next]_vars

TypeOK ==
  /\ pc \in {"main", "checkCompressed", "checkDb", "scan_triggers", "scan_notes",
             "note_row", "sig", "prompt", "list_tables", "next_table", "table_row",
             "done", "uncaught"}
  /\ scan_all \in BOOLEAN
  /\ preview_length \in Int
  /\ k \in 0..(Len(patterns) + 1)

-----------------------------------------------------------------------------
(* The properties *)

\* the store that scan_sqlite reads
ScannedStore == fs.anki2.store

\* what the current (or the last) call of the scanner has printed
ColumnOutput == SubSeq(out, colStart + 1, Len(out))

SignatureLabels ==
  << "Potentially malicious JavaScript", "Suspicious Python execution",
     "Suspicious iframe/object/embed", "Potential shell command execution" >>

\* s contains w at some position, letter case ignored
ContainsIgnoringCase(w, s) ==
  \E i \in 1..Len(s) :
     /\ i + Len(w) - 1 <= Len(s)
     /\ Lower(SubSeq(s, i, i + Len(w) - 1)) = w

RECURSIVE MatchingLabelsFrom(_, _)
MatchingLabelsFrom(i, s) ==
  IF i > 4 THEN <<>>
  ELSE (IF Search(i, s) THEN <<SignatureLabels[i]>> ELSE <<>>) \o MatchingLabelsFrom(i + 1, s)

FindingLabels ==
  LET f == SelectSeq(ColumnOutput, LAMBDA e : e.kind \in {"preview", "whole"})
  IN  [i \in 1..Len(f) |-> f[i].label]

\* C1: once a call of the scanner on a text is over, it has emitted exactly one
\* finding for each signature that matches the text and none for the others,
\* in the order of the signature list.
C1_OneFindingPerMatchingSignature ==
  (calls # {} /\ column.type = "str" /\ pc \notin {"sig", "prompt"})
    => FindingLabels = MatchingLabelsFrom(1, column.s)

\* the prompt asks for y or n: the affirmative answer is the letter y
Affirmative(r) == r \in { <<"y">>, <<" ", "Y", " ">> }

\* C2: when the scanner prompts, the preview it has printed is exactly the first
\* preview_length characters of the text, followed by one prompt, and the full
\* text is printed next if and only if the operator answers affirmatively.
C2_PreviewIsFirstCharacters ==
  [][ pc = "prompt" =>
        /\ out[Len(out)].kind = "prompt"
        /\ out[Len(out) - 1].kind = "preview"
        /\ Len(out[Len(out) - 1].text) = preview_length
        /\ \A i \in 1..Len(out[Len(out) - 1].text) : out[Len(out) - 1].text[i] = column.s[i]
        /\ (out' = out \o <<Ev("full", "", column.s)>>) <=> Affirmative(answer') ]_vars

\* C3: for a text no longer than preview_length, every signature evaluated so
\* far that matches has printed its label with the complete text, and the
\* call has printed no preview and issued no prompt.
C3_ShortTextPrintedWhole ==
  (calls # {} /\ column.type = "str" /\ Len(column.s) <= preview_length)
    => /\ pc # "prompt"
       /\ \A i \in 1..Len(ColumnOutput) : ColumnOutput[i].kind \notin {"preview", "prompt", "full"}
       /\ \A j \in 1..4 :
            (j < k /\ Search(j, column.s))
              => \E i \in 1..Len(ColumnOutput) :
                    ColumnOutput[i] = Ev("whole", SignatureLabels[j], column.s)

\* a matching text exactly as long as the preview was scanned to the end
C3_Witness ==
  /\ calls # {}
  /\ column.type = "str"
  /\ Len(column.s) = preview_length
  /\ k > 4
  /\ \E i \in 1..Len(ColumnOutput) : ColumnOutput[i].kind = "whole"

\* C4: whatever the operator's response to a prompt, the scanner goes on with
\* the next signature, and the response adds at most the full text to the output.
C4_PromptNeverStopsScan ==
  [][ pc = "prompt" =>
        /\ pc' = "sig"
        /\ k' = k + 1
        /\ out' \in {out, out \o <<Ev("full", "", column.s)>>} ]_vars

Printed(kind) == \E i \in 1..Len(out) : out[i].kind = kind

\* C5: a run on a file that is not a zip archive reports the extraction error,
\* never invokes scan_sqlite, and ends after printing that no database was found.
C5_InvalidZipNeverScans ==
  apkg.kind = "notzip" =>
    /\ ~scanInvoked
    /\ pc \in {"checkCompressed", "checkDb", "done"} => Printed("badZip")
    /\ pc = "done" => Printed("noDatabase")

\* C6: no exception leaves main.
C6_NoUncaughtException == pc # "uncaught"

C7Keywords == { <<"d", "e", "l", "e", "t", "e">>, <<"d", "r", "o", "p">>, <<"a", "l", "t", "e", "r">>, <<"a", "t", "t", "a", "c", "h">>, <<"p", "r", "a", "g", "m", "a">> }

TriggerOutput == SelectSeq(out, LAMBDA e : e.kind = "trigger")

ExpectedTriggerOutput ==
  LET f == SelectSeq(ScannedStore.triggers,
                     LAMBDA t : \E w \in C7Keywords : ContainsIgnoringCase(w, t.sql))
  IN  [i \in 1..Len(f) |-> Ev("trigger", f[i].name, f[i].sql)]

C8_FirstFiftyNotesScanned ==
  (~scan_all /\ pc = "done" /\ scanInvoked /\ Readable(fs.anki2)
     /\ HasTable(ScannedStore, "notes"))
    => calls = { [t |-> "notes", r |-> i, c |-> FldsColumn] :
                   i \in 1..Min(Len(TableNamed(ScannedStore, "notes").rows), 50) }

\* C9: when an exhaustive scan of a store is over, scan_table has been run on
\* every table of the schema, and the scanner on every string value of the
\* first min(n, 50) rows of each table and on no other value.
C9_EveryTableScanned ==
  (scan_all /\ pc = "done" /\ scanInvoked /\ Readable(fs.anki2))
    => /\ \A i \in 1..Len(ScannedStore.tables) :
            \E j \in 1..Len(out) :
               out[j].kind = "scanningTable" /\ out[j].label = ScannedStore.tables[i].name
       /\ \A i \in 1..Len(ScannedStore.tables) :
            LET t == ScannedStore.tables[i]
            IN  \A r \in 1..Min(Len(t.rows), 50) : \A c \in 1..Len(t.rows[r]) :
                   ([t |-> t.name, r |-> r, c |-> c] \in calls) <=> (t.rows[r][c].type = "str")
       /\ \A call \in calls : call.r <= 50

\* C10: a decompression that fails leaves collection.anki2 as it was.
C10_FailedDecompressionKeepsStore ==
  [][ (pc = "checkCompressed" /\ pc' = "checkDb" /\ Exists(fs.anki21b)
         /\ out'[Len(out')].kind = "decompressError")
        => fs'.anki2 = fs.anki2 ]_vars

====
